---- MODULE Spec2Model ----
(***************************************************************************)
(* Model of go-migrate (src/main.go): main spawns one migrate goroutine    *)
(* per configured project; each goroutine clones outside the mutex, runs   *)
(* the cleanup commands inside it, and reports completion through the      *)
(* Queue (a WaitGroup plus the plain ints Complete and Total).             *)
(*                                                                         *)
(* Paths are sequences of components.  config.BasePath is taken to be an   *)
(* absolute path, so path.Join(config.BasePath, x) does not depend on the  *)
(* working directory, while a relative argument of an external command     *)
(* (project.Name, users.txt) resolves against the working directory the    *)
(* child process inherits when it is started.                              *)
(***************************************************************************)
EXTENDS Integers, Sequences, FiniteSets, TLC

NumProjects == 2

Projects == 1..NumProjects

BasePath == <<"base">>

StartDir == <<"start">>

Join(dir, name) == Append(dir, name)

ProjectDir(p) == Join(BasePath, p)

VARIABLES
  config,    \* config.Projects: per project its Standard flag
  mainpc,    \* position of main
  i,         \* index of the project the range loop of main is at
  pc,        \* position of each migrate goroutine
  wg,        \* counter of queue.wg
  Complete,  \* queue.Complete
  Total,     \* queue.Total
  mu,        \* TRUE while the mutex mu is locked
  cwd,       \* working directory of the process
  dirs,      \* directories that exist in the filesystem
  out,       \* state of each project's log file handle
  logs,      \* lines written to each project's log file
  tmp,       \* value of Complete loaded by Complete++ of each goroutine
  pcomp,     \* value of Complete evaluated for the Printf of each goroutine
  printed,   \* progress lines printed for each project, as <<completed, total>>
  child,     \* working directory of each project's running clone process
  failed,    \* first cleanup command that failed in each project's running cleanup
  ret,       \* the return statement each migrate goroutine left the body by
  trace      \* per project, the steps taken so far with the directory they ran in

vars == <<config, mainpc, i, pc, wg, Complete, Total, mu, cwd, dirs, out,
          logs, tmp, pcomp, printed, child, failed, ret, trace>>

None == 0 - 1

NoDir == <<>>

(* The projects of projects.toml: standard and non-standard layouts alternate. *)
Configs ==
  {[p \in Projects |-> [Standard |-> (p % 2 = 1)]]}

Init ==
  /\ config \in Configs
  /\ mainpc = "chdir"
  /\ i = 1
  /\ pc = [p \in Projects |-> "idle"]
  /\ wg = 0
  /\ Complete = 0
  /\ Total = 0
  /\ mu = FALSE
  /\ cwd = StartDir
  /\ \E pre \in SUBSET Projects :
       dirs = {StartDir, BasePath} \cup {ProjectDir(p) : p \in pre}
  /\ out = [p \in Projects |-> "nil"]
  /\ logs = [p \in Projects |-> <<>>]
  /\ tmp = [p \in Projects |-> None]
  /\ pcomp = [p \in Projects |-> None]
  /\ printed = [p \in Projects |-> <<>>]
  /\ child = [p \in Projects |-> NoDir]
  /\ failed = [p \in Projects |-> ""]
  /\ ret = [p \in Projects |-> ""]
  /\ trace = [p \in Projects |-> <<>>]

----------------------------------------------------------------------------
(* main *)

MainChdir ==
  /\ mainpc = "chdir"
  /\ \/ /\ cwd' = BasePath
        /\ mainpc' = "assets"
     \/ /\ mainpc' = "exit1"
        /\ UNCHANGED cwd
  /\ UNCHANGED <<config, i, pc, wg, Complete, Total, mu, dirs, out, logs,
                 tmp, pcomp, printed, child, failed, ret,
                 trace>>

MainCheckAssets ==
  /\ mainpc = "assets"
  /\ \/ mainpc' = IF NumProjects = 0 THEN "wait" ELSE "add"
     \/ mainpc' = "exit1"
  /\ UNCHANGED <<config, i, pc, wg, Complete, Total, mu, cwd, dirs, out,
                 logs, tmp, pcomp, printed, child, failed, ret,
                 trace>>

QueueAdd ==
  /\ mainpc = "add"
  /\ wg' = wg + 1
  /\ Total' = Total + 1
  /\ mainpc' = "go"
  /\ UNCHANGED <<config, i, pc, Complete, mu, cwd, dirs, out, logs, tmp,
                 pcomp, printed, child, failed, ret,
                 trace>>

MainGo ==
  /\ mainpc = "go"
  /\ pc' = [pc EXCEPT ![i] = "stat"]
  /\ i' = i + 1
  /\ mainpc' = IF i = NumProjects THEN "wait" ELSE "add"
  /\ UNCHANGED <<config, wg, Complete, Total, mu, cwd, dirs, out, logs, tmp,
                 pcomp, printed, child, failed, ret,
                 trace>>

WgWaitReturnsEarly(n) == n <= 1

WgWaitReturns(n) == n = 0

MainWait ==
  /\ mainpc = "wait"
  /\ WgWaitReturns(wg)
  /\ mainpc' = "println"
  /\ UNCHANGED <<config, i, pc, wg, Complete, Total, mu, cwd, dirs, out,
                 logs, tmp, pcomp, printed, child, failed, ret,
                 trace>>

MainPrintln ==
  /\ mainpc = "println"
  /\ mainpc' = "return"
  /\ UNCHANGED <<config, i, pc, wg, Complete, Total, mu, cwd, dirs, out,
                 logs, tmp, pcomp, printed, child, failed, ret,
                 trace>>

MainReturn ==
  /\ mainpc = "return"
  /\ mainpc' = "exited"
  /\ UNCHANGED <<config, i, pc, wg, Complete, Total, mu, cwd, dirs, out,
                 logs, tmp, pcomp, printed, child, failed, ret,
                 trace>>

----------------------------------------------------------------------------
(* migrate *)

(* the goroutines run until the process ends: os.Exit(1) or return from main *)
Running == mainpc \notin {"exit1", "exited"}

StdAlways(p) == "-s"

Std(p) == IF config[p].Standard THEN "-s" ELSE ""

OldBranchAlwaysTrunk(p) == "trunk"

OldBranch(p) == IF config[p].Standard THEN "trunk" ELSE "git-svn"

(* project.Name and project.SVN of the configured projects *)
Names == <<"A", "B", "C", "D">>

Svns == <<"svn://A", "svn://B", "svn://C", "svn://D">>

CloneArgs(p) ==
  <<"git", "svn", "clone", Svns[p], "--authors-file=users.txt", "--no-metadata",
    "--prefix", Std(p), Names[p]>>

ScriptArgs(script) == <<"bash", Join(BasePath, script)>>

OldArgs(p) == <<"git", "branch", "-d", OldBranch(p)>>

Step(op, dir) == [op |-> op, dir |-> dir]

ExistsNever(dir) == FALSE

Exists(dir) == dir \in dirs

Stat(p) ==
  /\ Running
  /\ pc[p] = "stat"
  /\ IF Exists(ProjectDir(p))
       THEN /\ pc' = [pc EXCEPT ![p] = "wgdone"]
            /\ ret' = [ret EXCEPT ![p] = "skip"]
       ELSE /\ pc' = [pc EXCEPT ![p] = "create"]
            /\ UNCHANGED ret
  /\ UNCHANGED <<config, mainpc, i, wg, Complete, Total, mu, cwd, dirs, out,
                 logs, tmp, pcomp, printed, child, failed, trace>>

Create(p) ==
  /\ Running
  /\ pc[p] = "create"
  /\ \/ /\ out' = [out EXCEPT ![p] = "open"]
        /\ pc' = [pc EXCEPT ![p] = "clone"]
        /\ UNCHANGED ret
     \/ /\ pc' = [pc EXCEPT ![p] = "wgdone"]
        /\ ret' = [ret EXCEPT ![p] = "nolog"]
        /\ UNCHANGED out
  /\ UNCHANGED <<config, mainpc, i, wg, Complete, Total, mu, cwd, dirs, logs,
                 tmp, pcomp, printed, child, failed, trace>>

CloneDir(p) == cwd

CloneStartUnderLock(p) ==
  /\ Running
  /\ pc[p] = "clone"
  /\ ~mu
  /\ logs' = [logs EXCEPT ![p] = Append(@, CloneArgs(p))]
  /\ child' = [child EXCEPT ![p] = CloneDir(p)]
  /\ trace' = [trace EXCEPT ![p] = Append(@, Step("clone", NoDir))]
  /\ pc' = [pc EXCEPT ![p] = "cloning"]
  /\ UNCHANGED <<config, mainpc, i, wg, Complete, Total, mu, cwd, dirs, out,
                 tmp, pcomp, printed, failed, ret>>

(* migration.Run(): the child is started in the working directory the *)
(* process has at that moment (Cmd.Dir is not set), then waited for   *)
CloneStart(p) ==
  /\ Running
  /\ pc[p] = "clone"
  /\ logs' = [logs EXCEPT ![p] = Append(@, CloneArgs(p))]
  /\ child' = [child EXCEPT ![p] = CloneDir(p)]
  /\ trace' = [trace EXCEPT ![p] = Append(@, Step("clone", NoDir))]
  /\ pc' = [pc EXCEPT ![p] = "cloning"]
  /\ UNCHANGED <<config, mainpc, i, wg, Complete, Total, mu, cwd, dirs, out,
                 tmp, pcomp, printed, failed, ret>>

AfterCloneErrorNoReturn(p) == "lock"

AfterCloneErrorNoClose(p) == "wgdone"

AfterCloneError(p) == "close"

CloneEnd(p) ==
  /\ Running
  /\ pc[p] = "cloning"
  /\ \/ /\ dirs' = dirs \cup {Join(child[p], p)}
        /\ pc' = [pc EXCEPT ![p] = "lock"]
        /\ UNCHANGED ret
     \/ /\ pc' = [pc EXCEPT ![p] = AfterCloneError(p)]
        /\ ret' = [ret EXCEPT ![p] = "clonefail"]
        /\ UNCHANGED dirs
  /\ child' = [child EXCEPT ![p] = NoDir]
  /\ UNCHANGED <<config, mainpc, i, wg, Complete, Total, mu, cwd, out, logs,
                 tmp, pcomp, printed, failed, trace>>

MuFreeAlways(locked) == TRUE

MuFree(locked) == ~locked

MuLock(p) ==
  /\ Running
  /\ pc[p] = "lock"
  /\ MuFree(mu)
  /\ mu' = TRUE
  /\ trace' = [trace EXCEPT ![p] = Append(@, Step("Lock", NoDir))]
  /\ pc' = [pc EXCEPT ![p] = "chdir"]
  /\ UNCHANGED <<config, mainpc, i, wg, Complete, Total, cwd, dirs, out, logs,
                 tmp, pcomp, printed, child, failed, ret>>

AfterChdirErrorNoReturn(p) == "tags"

AfterChdirErrorNoUnlock(p) == "close"

AfterChdirError(p) == "unlock"

ChdirIn(p) ==
  /\ Running
  /\ pc[p] = "chdir"
  /\ \/ /\ ProjectDir(p) \in dirs
        /\ cwd' = ProjectDir(p)
        /\ trace' = [trace EXCEPT ![p] = Append(@, Step("Chdir", cwd'))]
        /\ pc' = [pc EXCEPT ![p] = "tags"]
        /\ UNCHANGED ret
     \/ /\ pc' = [pc EXCEPT ![p] = AfterChdirError(p)]
        /\ ret' = [ret EXCEPT ![p] = "nochdir"]
        /\ UNCHANGED <<cwd, trace>>
  /\ UNCHANGED <<config, mainpc, i, wg, Complete, Total, mu, dirs, out, logs,
                 tmp, pcomp, printed, child, failed>>

AfterJobReturnsOnError(ok, next) == IF ok THEN next ELSE "unlock"

AfterJob(ok, next) == next

(* One cleanup command: its invocation is written to the log, it runs in *)
(* the working directory of the process, and its error is only printed.  *)
Job(p, at, args, next) ==
  /\ Running
  /\ pc[p] = at
  /\ logs' = [logs EXCEPT ![p] = Append(@, args)]
  /\ trace' = [trace EXCEPT ![p] = Append(@, Step(at, cwd))]
  /\ \E ok \in BOOLEAN :
       /\ failed' = [failed EXCEPT ![p] = IF ~ok /\ @ = "" THEN at ELSE @]
       /\ pc' = [pc EXCEPT ![p] = AfterJob(ok, next)]
  /\ UNCHANGED <<config, mainpc, i, wg, Complete, Total, mu, cwd, dirs, out,
                 tmp, pcomp, printed, child, ret>>

AfterTagsSkipsBranches == "pegs"

AfterTags == "branches"

Tags(p) == Job(p, "tags", ScriptArgs("tags.sh"), AfterTags)

Branches(p) == Job(p, "branches", ScriptArgs("branches.sh"), "pegs")

Pegs(p) == Job(p, "pegs", ScriptArgs("pegs.sh"), "old")

AfterOldNoChdirBack == "unlock"

AfterOld == "chdirback"

Old(p) == Job(p, "old", OldArgs(p), AfterOld)

ChdirBack(p) ==
  /\ Running
  /\ pc[p] = "chdirback"
  /\ \/ cwd' = BasePath
     \/ UNCHANGED cwd
  /\ trace' = [trace EXCEPT ![p] = Append(@, Step("ChdirBack", NoDir))]
  /\ failed' = [failed EXCEPT ![p] = ""]
  /\ ret' = [ret EXCEPT ![p] = "end"]
  /\ pc' = [pc EXCEPT ![p] = "unlock"]
  /\ UNCHANGED <<config, mainpc, i, wg, Complete, Total, mu, dirs, out, logs,
                 tmp, pcomp, printed, child>>

MuUnlock(p) ==
  /\ Running
  /\ pc[p] = "unlock"
  /\ mu' = FALSE
  /\ trace' = [trace EXCEPT ![p] = Append(@, Step("Unlock", NoDir))]
  /\ pc' = [pc EXCEPT ![p] = "close"]
  /\ UNCHANGED <<config, mainpc, i, wg, Complete, Total, cwd, dirs, out, logs,
                 tmp, pcomp, printed, child, failed, ret>>

Close(p) ==
  /\ Running
  /\ pc[p] = "close"
  /\ out' = [out EXCEPT ![p] = "closed"]
  /\ pc' = [pc EXCEPT ![p] = "wgdone"]
  /\ UNCHANGED <<config, mainpc, i, wg, Complete, Total, mu, cwd, dirs, logs,
                 tmp, pcomp, printed, child, failed, ret,
                 trace>>

(* queue.Done(): wg.Done() and then Complete++, a plain load and store *)

WgDone(p) ==
  /\ Running
  /\ pc[p] = "wgdone"
  /\ wg' = wg - 1
  /\ pc' = [pc EXCEPT ![p] = "load"]
  /\ UNCHANGED <<config, mainpc, i, Complete, Total, mu, cwd, dirs, out, logs,
                 tmp, pcomp, printed, child, failed, ret,
                 trace>>

CompleteLoad(p) ==
  /\ Running
  /\ pc[p] = "load"
  /\ tmp' = [tmp EXCEPT ![p] = Complete]
  /\ pc' = [pc EXCEPT ![p] = "store"]
  /\ UNCHANGED <<config, mainpc, i, wg, Complete, Total, mu, cwd, dirs, out,
                 logs, pcomp, printed, child, failed, ret,
                 trace>>

CompleteStore(p) ==
  /\ Running
  /\ pc[p] = "store"
  /\ Complete' = tmp[p] + 1
  /\ tmp' = [tmp EXCEPT ![p] = None]
  /\ pc' = [pc EXCEPT ![p] = "printc"]
  /\ UNCHANGED <<config, mainpc, i, wg, Total, mu, cwd, dirs, out, logs,
                 pcomp, printed, child, failed, ret,
                 trace>>

(* fmt.Printf("[%d/%d] ...", queue.Complete, queue.Total, project.Name) *)

PrintfComplete(p) ==
  /\ Running
  /\ pc[p] = "printc"
  /\ pcomp' = [pcomp EXCEPT ![p] = Complete]
  /\ pc' = [pc EXCEPT ![p] = "printt"]
  /\ UNCHANGED <<config, mainpc, i, wg, Complete, Total, mu, cwd, dirs, out,
                 logs, tmp, printed, child, failed, ret,
                 trace>>

PrintfTotal(p) ==
  /\ Running
  /\ pc[p] = "printt"
  /\ printed' = [printed EXCEPT ![p] = Append(@, <<pcomp[p], Total>>)]
  /\ pcomp' = [pcomp EXCEPT ![p] = None]
  /\ pc' = [pc EXCEPT ![p] = "finished"]
  /\ UNCHANGED <<config, mainpc, i, wg, Complete, Total, mu, cwd, dirs, out,
                 logs, tmp, child, failed, ret,
                 trace>>

migrate(p) ==
  \/ Stat(p) \/ Create(p) \/ CloneStart(p) \/ CloneEnd(p)
  \/ MuLock(p) \/ ChdirIn(p)
  \/ Tags(p) \/ Branches(p) \/ Pegs(p) \/ Old(p)
  \/ ChdirBack(p) \/ MuUnlock(p) \/ Close(p)
  \/ WgDone(p) \/ CompleteLoad(p) \/ CompleteStore(p)
  \/ PrintfComplete(p) \/ PrintfTotal(p)

main ==
  \/ MainChdir \/ MainCheckAssets \/ QueueAdd \/ MainGo
  \/ MainWait \/ MainPrintln \/ MainReturn

Next == main \/ \E p \in Projects : migrate(p)

Spec == Init /\ [][Next]_vars

(* The Go scheduler keeps running every goroutine that can take a step, and *)
(* every external command is taken to terminate.                            *)
FairSpec ==
  /\ Spec
  /\ WF_vars(main)
  /\ \A p \in Projects : WF_vars(migrate(p))

----------------------------------------------------------------------------
(* Vocabulary of the properties *)

InSpan(p) ==
  pc[p] \in {"chdir", "tags", "branches", "pegs", "old", "chdirback", "unlock"}

Signaled(p) == pc[p] \in {"load", "store", "printc", "printt", "finished"}

DoneReturned(p) == pc[p] \in {"printc", "printt", "finished"}

PassedWait == mainpc \in {"println", "return", "exited"}

FinalLinePrinted == mainpc \in {"return", "exited"}

Ran(p, op) == \E k \in 1..Len(trace[p]) : trace[p][k].op = op

CleanupJobs == {"tags", "branches", "pegs", "old"}

MigrateSteps ==
  <<"clone", "Lock", "Chdir", "tags", "branches", "pegs", "old", "ChdirBack",
    "Unlock">>

----------------------------------------------------------------------------
(* C1: at most one migrate goroutine is between mu.Lock and mu.Unlock. *)
C1_MutualExclusion ==
  Cardinality({p \in Projects : InSpan(p)}) <= 1

C1_Witness ==
  \E p, q \in Projects : p # q /\ pc[p] = "pegs" /\ pc[q] = "lock"

(* C2: once every task has returned from Queue.Done, Complete = Total = N. *)
C2_AllCounted ==
  (\A p \in Projects : DoneReturned(p))
     => (Complete = NumProjects /\ Total = NumProjects)

(* C3: main is past queue.wg.Wait only when every spawned task has called *)
(* Queue.Done (has performed its wg.Done).                                *)
C3_WaitAfterAllSignaled ==
  PassedWait => \A p \in Projects : Signaled(p)

C3_Witness ==
  /\ mainpc = "println"
  /\ \E p \in Projects : pc[p] = "load"

(* C4: every project's progress line is printed exactly once: never twice, *)
(* never missing when the process ends, and only when the task has ended   *)
(* all its other steps.                                                    *)
C4_ProgressLineExactlyOnce ==
  \A p \in Projects :
    /\ Len(printed[p]) <= 1
    /\ mainpc = "exited" => Len(printed[p]) = 1
    /\ Len(printed[p]) = 1 => (pc[p] = "finished" /\ out[p] # "open")

(* C5: the final line "Migration finished..." is printed only after the *)
(* progress lines of all projects.                                      *)
C5_FinalLineLast ==
  FinalLinePrinted => \A p \in Projects : Len(printed[p]) >= 1

(* C6: the progress lines carry completed/total = 1/N .. N/N, each once: *)
(* every line has total N, no two lines the same completed value, and    *)
(* when all are printed the completed values are exactly 1..N.           *)
C6_ProgressPairs ==
  /\ \A p \in Projects : \A k \in 1..Len(printed[p]) :
        /\ printed[p][k][2] = NumProjects
        /\ printed[p][k][1] \in 1..NumProjects
        /\ \A q \in Projects \ {p} : \A j \in 1..Len(printed[q]) :
              printed[q][j][1] # printed[p][k][1]
  /\ (\A p \in Projects : pc[p] = "finished")
        => {printed[p][1][1] : p \in Projects} = 1..NumProjects

(* C7: whenever some task has called Queue.Done or is reading Total for *)
(* its progress line, Total already equals the number of projects.      *)
C7_TotalFixedBeforeCompletion ==
  (\E p \in Projects : Signaled(p)) => Total = NumProjects

(* C8: the clone of every project runs with the base path as its working *)
(* directory, so that the relative project name and users.txt resolve to *)
(* <base>/P and <base>/users.txt.                                        *)
C8_CloneRunsInBase ==
  \A p \in Projects : pc[p] = "cloning" => child[p] = BasePath

(* C9: every cleanup command of project P runs while the working directory *)
(* of the process is <base>/P.                                             *)
C9_CleanupInOwnDir ==
  \A p \in Projects :
    /\ pc[p] \in CleanupJobs => cwd = ProjectDir(p)
    /\ \A k \in 1..Len(trace[p]) :
         trace[p][k].op \in CleanupJobs => trace[p][k].dir = ProjectDir(p)

C9_Witness ==
  \E p, q \in Projects :
    /\ p # q
    /\ Ran(q, "ChdirBack") /\ cwd # BasePath /\ pc[q] = "finished"
    /\ Ran(p, "old")

(* C10: the cleanup events of a project occur in the order Lock, Chdir,   *)
(* tags, branches, pegs, old, ChdirBack, Unlock, within one hold of mu.   *)
C10_CleanupOrder ==
  \A p \in Projects :
    Ran(p, "Chdir") =>
      /\ Len(trace[p]) <= Len(MigrateSteps)
      /\ \A k \in 1..Len(trace[p]) : trace[p][k].op = MigrateSteps[k]
      /\ ~Ran(p, "Unlock") => (mu /\ InSpan(p))

C10_Witness ==
  \E p \in Projects : Len(trace[p]) = Len(MigrateSteps)

TailPcs == {"wgdone", "load", "store", "printc", "printt", "finished"}

Count(p, op) == Cardinality({k \in 1..Len(trace[p]) : trace[p][k].op = op})

(* C11: once a project has changed into its directory, each of the four  *)
(* cleanup commands is executed exactly once whichever of them failed; a *)
(* failed command leaves the task in its cleanup.                        *)
C11_CleanupIndependent ==
  \A p \in Projects :
    /\ (Ran(p, "Chdir") /\ pc[p] \notin CleanupJobs)
          => \A job \in CleanupJobs : Count(p, job) = 1
    /\ failed[p] # "" => pc[p] \in {"branches", "pegs", "old", "chdirback"}

C11_Witness ==
  \E p \in Projects :
    /\ failed[p] = "tags"
    /\ pc[p] = "chdirback"
    /\ \A job \in CleanupJobs : Count(p, job) = 1

(* C12: a project whose directory exists when its task starts is skipped: *)
(* no clone, no log file, no lock, and it goes on to signal completion.   *)
C12_Skip ==
  \A p \in Projects :
    /\ (ProjectDir(p) \in dirs /\ ~Ran(p, "clone") /\ pc[p] \notin {"idle", "stat"})
          => ret[p] = "skip"
    /\ ret[p] = "skip"
          => /\ trace[p] = <<>>
             /\ logs[p] = <<>>
             /\ out[p] = "nil"
             /\ pc[p] \in TailPcs

C12_Witness ==
  \E p, q \in Projects :
    /\ ret[p] = "skip" /\ Signaled(p)
    /\ ProjectDir(q) \in dirs /\ Len(trace[q]) = Len(MigrateSteps)

(* C13: a task whose clone failed never locks mu, never changes the       *)
(* working directory, runs no cleanup command, and goes on to signal.     *)
C13_CloneFailure ==
  \A p \in Projects :
    ret[p] = "clonefail"
      => /\ Len(trace[p]) = 1
         /\ trace[p][1].op = "clone"
         /\ Len(logs[p]) = 1
         /\ pc[p] \in {"close"} \cup TailPcs

C13_Witness ==
  \E p \in Projects : ret[p] = "clonefail" /\ Signaled(p) /\ mu

RunEnded == mainpc = "exited" /\ \A p \in Projects : Signaled(p)

(* C14: under fair scheduling, once the setup has succeeded every task    *)
(* eventually signals completion and main prints the final line and ends, *)
(* whatever failed in any project.                                        *)
C14_Termination == (mainpc = "add") ~> RunEnded

C14_Witness ==
  /\ RunEnded
  /\ \E p, q \in Projects : ret[p] = "nochdir" /\ ret[q] = "end" /\ cwd # BasePath

HasArg(args, a) == \E k \in 1..Len(args) : args[k] = a

(* C15: the stale-branch deletion of a project that reaches it targets *)
(* trunk if and only if the project is standard-layout, else git-svn.  *)
C15_OldBranchVariant ==
  \A p \in Projects :
    Ran(p, "old") =>
      logs[p][Len(logs[p])] =
        <<"git", "branch", "-d",
          IF config[p].Standard THEN "trunk" ELSE "git-svn">>

C15_Witness ==
  \E p, q \in Projects :
    /\ config[p].Standard /\ Ran(p, "old")
    /\ ~config[q].Standard /\ Ran(q, "old")

(* C16, as claimed: the clone invocation has -s only for a standard       *)
(* project, and for a non-standard project it has no prefix flag at all.  *)
C16_NoPrefixFlagForNonStandard ==
  \A p \in Projects :
    Ran(p, "clone") =>
      /\ HasArg(logs[p][1], "-s") <=> config[p].Standard
      /\ ~config[p].Standard => ~HasArg(logs[p][1], "--prefix")

(* C16, amended: the clone invocation has -s if and only if the project   *)
(* is standard; --prefix is passed for every project, followed by -s for  *)
(* a standard project and by an empty argument for a non-standard one.    *)
C16_CloneFlags ==
  \A p \in Projects :
    Ran(p, "clone") =>
      /\ HasArg(logs[p][1], "-s") <=> config[p].Standard
      /\ HasArg(logs[p][1], "--prefix")
      /\ \A k \in 1..Len(logs[p][1]) :
           logs[p][1][k] = "--prefix" =>
             /\ k < Len(logs[p][1])
             /\ logs[p][1][k + 1] = IF config[p].Standard THEN "-s" ELSE ""

C16_Witness ==
  \E p, q \in Projects :
    /\ config[p].Standard /\ Ran(p, "clone")
    /\ ~config[q].Standard /\ Ran(q, "clone")

(* C17: no two tasks are between the load and the store of Complete at    *)
(* the same time, Complete never decreases, and every task's store makes  *)
(* it grow by exactly 1.                                                  *)
C17_IncrementsExclusive ==
  [][/\ Cardinality({p \in Projects : pc'[p] = "store"}) <= 1
     /\ Complete' >= Complete
     /\ \A p \in Projects :
          (pc[p] = "store" /\ pc'[p] = "printc") => Complete' = Complete + 1
    ]_vars

SetupDone == mainpc \in {"add", "go", "wait", "println", "return", "exited"}

(* C18, as claimed: after setup, whenever mu is free the working *)
(* directory of the process is the base path.                    *)
C18_CwdRestored ==
  (SetupDone /\ ~mu) => cwd = BasePath

(* C18, amended: after setup, whenever mu is free the working directory *)
(* is the base path, or the directory of a project whose change back to *)
(* the base path failed; a failed change into a project directory       *)
(* leaves it where it was.                                              *)
C18_CwdRestoredUnlessChdirFailed ==
  (SetupDone /\ ~mu) =>
     \/ cwd = BasePath
     \/ \E p \in Projects : cwd = ProjectDir(p) /\ Ran(p, "ChdirBack")

C18_Witness ==
  /\ SetupDone /\ ~mu
  /\ \E p, q \in Projects :
       /\ ret[p] = "nochdir" /\ Ran(p, "Unlock")
       /\ cwd = ProjectDir(q) /\ Ran(q, "Unlock")

(* C19: a task that has been started and has not finished its clone can  *)
(* always take its next step, whatever the other tasks do; a task cannot *)
(* take a step only while it waits for mu held by another task.          *)
C19_CloneNeverBlocks ==
  \A p \in Projects :
    Running =>
      /\ pc[p] \in {"stat", "create", "clone", "cloning"} => ENABLED migrate(p)
      /\ pc[p] \notin {"idle", "lock", "finished"} => ENABLED migrate(p)
      /\ pc[p] = "lock" => (ENABLED migrate(p) <=> ~mu)

C19_Witness ==
  \E p, q \in Projects :
    /\ pc[p] = "cloning" /\ child[p] = ProjectDir(q)
    /\ pc[q] \in CleanupJobs

(* C20: a task that signals completion does not hold mu and has closed   *)
(* its log file if it opened one, on every return path; nothing is       *)
(* written to a closed log; when all tasks have ended mu is free.        *)
C20_ReleasedBeforeDone ==
  /\ \A p \in Projects :
       /\ pc[p] \in TailPcs =>
            /\ out[p] # "open"
            /\ Ran(p, "Lock") => Ran(p, "Unlock")
            /\ ret[p] \in {"skip", "nolog"} <=> out[p] = "nil"
       /\ out[p] = "closed" => pc[p] \in TailPcs
  /\ (\A p \in Projects : pc[p] \in TailPcs) => ~mu

C20_Witness ==
  \E p, q \in Projects :
    /\ pc[p] = "wgdone" /\ ret[p] = "nochdir" /\ out[p] = "closed"
    /\ pc[q] = "wgdone" /\ ret[q] = "nolog"

====
